---- MODULE Spec2Model ----
(***************************************************************************)
(* The Socket class of Svelte-5-SocketIO (Socket.svelte.ts): a wrapper     *)
(* around a socket.io-client socket that keeps a connection status, a log  *)
(* of received messages and a registry of application listeners.           *)
(*                                                                         *)
(* One state is the state of one Socket object together with the           *)
(* socket.io-client object it owns (its listener table and its connected   *)
(* flag).  JavaScript runs every method and every transport callback to    *)
(* completion, so each method call and each transport emission is one      *)
(* atomic action.  The transport's lifecycle signals and the events the    *)
(* server sends are inputs of the environment: any signal may arrive at    *)
(* any time.  Application callbacks are opaque: they are invoked, and the  *)
(* invocation is recorded in lastOp.trace; a callback either returns or    *)
(* throws (the callbacks of Throwing).                                     *)
(*                                                                         *)
(* Not modelled: the value of the timestamps (lastConnected and            *)
(* lastDisconnected are "set" or not; a log entry carries no timestamp),   *)
(* the url and the socket.io options (autoConnect is false, the default:   *)
(* the constructor makes no connection attempt).                           *)
(***************************************************************************)
EXTENDS Integers, Sequences, FiniteSets, TLC

VARIABLES
    context,         \* the svelte context: key -> number of the coordinator set, 0 for none
    options,         \* this.options.socketContext of each coordinator, in construction order
    socket,          \* this.socket: "io" (the socket.io-client object) or "null"
    status,          \* this.status
    messages,        \* this.messages, entries [event, data]
    eventListeners,  \* this.eventListeners: event name -> sequence of callbacks
    ioListeners,     \* the listener table of the socket.io-client object
    ioConnected,     \* the connected flag of the socket.io-client object
    promises,        \* the promises made by connect(), in creation order
    ioConnects,      \* number of socket.connect() calls made on the transport
    emitted,         \* the socket.emit() calls made on the transport, in order
    recorded,        \* every entry pushed on messages since it was last emptied
    lastOp           \* the last operation: its name, arguments, result and effects

vars == <<context, options, socket, status, messages, eventListeners, ioListeners, ioConnected,
          promises, ioConnects, emitted, recorded, lastOp>>

----------------------------------------------------------------------------
(* Bounds of the model. *)

\* connect() calls that get past the guard, specification Spec
MaxConnects == 2
\* connect() calls that get past the guard, specification SpecSend
MaxSendConnects == 1
\* wrappers that on() and once() have on the transport at one time, and
\* callbacks in eventListeners at one time
MaxWrappers == 1
\* socket.emit() calls
MaxEmits == 1
\* the attempt numbers the transport reports
MaxAttempt == 1
\* entries recorded in the log between two clears, specification SpecLog
LogDeliveries == 102
\* wrappers on the transport at one time, and callbacks in eventListeners at
\* one time, specification SpecListeners
MaxListeners == 2
\* entries recorded in the log between two clears, specification SpecListeners
MaxRecorded == 2
\* callbacks in eventListeners at one time, specification SpecLifecycle
MaxLifecycleListeners == 2
\* coordinators constructed, the first one included
MaxCoordinators == 4

(* The log's capacity: if (this.messages.length > 100) this.messages.shift() *)
MaxMessages == 100

----------------------------------------------------------------------------
(* Names. *)

TransportSignals ==
    {"connect", "disconnect", "connect_error", "reconnect",
     "reconnect_attempt", "reconnect_error", "reconnect_failed"}

\* the lifecycle events that the handlers pass to _emitCustomEvent
LifecycleEvents ==
    {"connected", "disconnected", "connectError", "reconnected",
     "tryConnect", "reconnectError", "reconnectFailed"}

\* the event names the application passes to on(), off() and once(): an
\* event of the server, two of the transport's signals, the lifecycle events
RegEvents == {"chat", "connect", "disconnect"} \cup LifecycleEvents

\* the event names that can have a listener on the transport
IoEvents == TransportSignals \cup RegEvents

\* payloads of the server's events, and of send()
Data == {"d1", "d2"}

\* reasons the transport gives with `disconnect`
Reasons == {"io server disconnect", "transport close"}

\* error.message of a connect_error or reconnect_error; "" is a missing message
ErrorMessages == {"", "timeout"}

\* the application callbacks that throw when they are called
Throwing == {"cbThrow"}

NoError == "null"
NoData == "undefined"

\* A payload: the value a listener receives (s) and, for the reconnection
\* signals, the attempt number (n).
Payload(s, n) == [s |-> s, n |-> n]

\* A listener on the transport: the constructor's handler of a lifecycle
\* signal ("internal"), connect()'s onConnect / onError of promise `call`,
\* or the wrapper that on() / once() builds around callback `cb`.
Handler(kind, call, cb) == [kind |-> kind, call |-> call, cb |-> cb]

Internal == Handler("internal", 0, "")

\* The application's own callback, as off(event, callback) passes it to the
\* transport: it is never what on() or once() registered there.
UserCallback(cb) == Handler("user", 0, cb)

----------------------------------------------------------------------------
(* The socket.io-client emitter: on, off(event, fn), off(event). *)

RemoveFirst(seq, h) ==
    LET idx == {i \in 1..Len(seq) : seq[i] = h} IN
    IF idx = {} THEN seq
    ELSE LET i == CHOOSE j \in idx : \A k \in idx : j <= k IN
         SubSeq(seq, 1, i - 1) \o SubSeq(seq, i + 1, Len(seq))

IoOn(ls, e, h) == [ls EXCEPT ![e] = Append(@, h)]

\* off(event, fn) that removes nothing.
IoOffKeeps(ls, e, h) == ls

IoOff(ls, e, h) == [ls EXCEPT ![e] = RemoveFirst(@, h)]

\* off(event) that leaves the transport's listeners in place.
IoOffAllKeeps(ls, e) == ls

IoOffAll(ls, e) == [ls EXCEPT ![e] = <<>>]

\* removeAllListeners() that removes nothing.
IoRemoveAllListenersKeeps(ls) == ls

IoRemoveAllListeners(ls) == [e \in IoEvents |-> <<>>]

\* the wrappers of on() and once() among the transport's listeners of event e
WrappersOn(ls, e) == {i \in 1..Len(ls[e]) : ls[e][i].kind \in {"on", "once"}}

\* the number of wrappers of on() and once() on the transport
Wrappers(ls) ==
    Cardinality(UNION {{<<e, i>> : i \in WrappersOn(ls, e)} : e \in RegEvents})

----------------------------------------------------------------------------
(* The status mutations of the seven handlers of _setupEventHandlers. *)

\* OnConnectStatus without the reset of reconnectAttempts.
OnConnectStatusKeepsAttempts(s) ==
    [s EXCEPT !.connected = TRUE, !.connecting = FALSE, !.disconnected = FALSE,
              !.error = NoError, !.lastConnected = TRUE]

OnConnectStatus(s) ==
    [s EXCEPT !.connected = TRUE, !.connecting = FALSE, !.disconnected = FALSE,
              !.error = NoError, !.reconnectAttempts = 0, !.lastConnected = TRUE]

\* OnDisconnectStatus that sets the error for every reason.
OnDisconnectStatusAnyReason(s, reason) ==
    [s EXCEPT !.connected = FALSE, !.connecting = FALSE, !.disconnected = TRUE,
              !.lastDisconnected = TRUE, !.error = "Server disconnected the client"]

OnDisconnectStatus(s, reason) ==
    LET t == [s EXCEPT !.connected = FALSE, !.connecting = FALSE,
                       !.disconnected = TRUE, !.lastDisconnected = TRUE] IN
    IF reason = "io server disconnect"
    THEN [t EXCEPT !.error = "Server disconnected the client"]
    ELSE t

\* OnConnectErrorStatus without connecting = false.
OnConnectErrorStatusKeepsConnecting(s, message) ==
    [s EXCEPT !.connected = FALSE, !.disconnected = TRUE,
              !.error = IF message = "" THEN "Connection error" ELSE message]

OnConnectErrorStatus(s, message) ==
    [s EXCEPT !.connected = FALSE, !.connecting = FALSE, !.disconnected = TRUE,
              !.error = IF message = "" THEN "Connection error" ELSE message]

OnReconnectStatus(s, attemptNumber) ==
    [s EXCEPT !.reconnectAttempts = attemptNumber]

OnReconnectAttemptStatus(s, attemptNumber) ==
    [s EXCEPT !.connecting = TRUE, !.reconnectAttempts = attemptNumber]

\* OnReconnectErrorStatus that also ends the attempt.
OnReconnectErrorStatusEndsAttempt(s, message) ==
    [s EXCEPT !.connecting = FALSE,
              !.error = IF message = "" THEN "Reconnection error" ELSE message]

OnReconnectErrorStatus(s, message) ==
    [s EXCEPT !.error = IF message = "" THEN "Reconnection error" ELSE message]

OnReconnectFailedStatus(s) ==
    [s EXCEPT !.connecting = FALSE,
              !.error = "Failed to reconnect after maximum attempts"]

InternalStatus(e, p, s) ==
    CASE e = "connect" -> OnConnectStatus(s)
      [] e = "disconnect" -> OnDisconnectStatus(s, p.s)
      [] e = "connect_error" -> OnConnectErrorStatus(s, p.s)
      [] e = "reconnect" -> OnReconnectStatus(s, p.n)
      [] e = "reconnect_attempt" -> OnReconnectAttemptStatus(s, p.n)
      [] e = "reconnect_error" -> OnReconnectErrorStatus(s, p.s)
      [] e = "reconnect_failed" -> OnReconnectFailedStatus(s)

\* The lifecycle event each handler passes to _emitCustomEvent.
Custom(e) ==
    CASE e = "connect" -> "connected"
      [] e = "disconnect" -> "disconnected"
      [] e = "connect_error" -> "connectError"
      [] e = "reconnect" -> "reconnected"
      [] e = "reconnect_attempt" -> "tryConnect"
      [] e = "reconnect_error" -> "reconnectError"
      [] e = "reconnect_failed" -> "reconnectFailed"

\* The data each handler passes to _emitCustomEvent, without the timestamp:
\* the reason, the error message or its default, the attempt number.
CustomData(e, p) ==
    CASE e = "connect" -> ""
      [] e = "disconnect" -> p.s
      [] e = "connect_error" -> IF p.s = "" THEN "Connection error" ELSE p.s
      [] e = "reconnect" -> p.s
      [] e = "reconnect_attempt" -> p.s
      [] e = "reconnect_error" -> IF p.s = "" THEN "Reconnection error" ELSE p.s
      [] e = "reconnect_failed" -> ""

\* _emitCustomEvent that calls the listeners from the last to the first.
EmitCustomEventReversed(name) ==
    LET listeners == IF name \in RegEvents THEN eventListeners[name] ELSE <<>>
        n == Len(listeners)
    IN  [i \in 1..n |-> <<IF listeners[n + 1 - i] \in Throwing THEN "caught" ELSE "invoke",
                          name, listeners[n + 1 - i]>>]

\* _emitCustomEvent that calls the first listener only.
EmitCustomEventFirstOnly(name) ==
    LET listeners == IF name \in RegEvents THEN eventListeners[name] ELSE <<>> IN
    [i \in 1..(IF listeners = <<>> THEN 0 ELSE 1) |-> <<"invoke", name, listeners[i]>>]

\* _emitCustomEvent without its try block: the first callback that throws
\* ends the loop.
EmitCustomEventNoCatch(name) ==
    LET listeners == IF name \in RegEvents THEN eventListeners[name] ELSE <<>>
        bad == {i \in 1..Len(listeners) : listeners[i] \in Throwing}
        n == IF bad = {} THEN Len(listeners)
             ELSE CHOOSE i \in bad : \A j \in bad : i <= j
    IN  [i \in 1..n |->
            <<IF listeners[i] \in Throwing THEN "throw" ELSE "invoke", name, listeners[i]>>]

\* _emitCustomEvent: the listeners of eventListeners[name], in order.  The
\* result is the invocations made, as entries of lastOp.trace; "caught" is
\* the invocation of a callback that threw into the catch block.
EmitCustomEvent(name) ==
    LET listeners == IF name \in RegEvents THEN eventListeners[name] ELSE <<>> IN
    [i \in 1..Len(listeners) |->
        <<IF listeners[i] \in Throwing THEN "caught" ELSE "invoke", name, listeners[i]>>]

----------------------------------------------------------------------------
(* The message log. *)

Message(e, d) == [event |-> e, data |-> d]

\* on()'s wrapper without the push.
RecordOnSkips(msgs, m) == msgs

\* on()'s wrapper: push, then shift when the length is over the capacity.
RecordOn(msgs, m) ==
    LET pushed == Append(msgs, m) IN
    IF Len(pushed) > MaxMessages THEN Tail(pushed) ELSE pushed

\* once()'s wrapper: push.
RecordOnce(msgs, m) == Append(msgs, m)

----------------------------------------------------------------------------
(* One emission of the transport: socket.io-client calls a copy of the     *)
(* event's listener list in registration order.  st is the state the       *)
(* listeners work on.                                                      *)

\* resolve() / reject() of promise k; a settled promise stays as it is.
Settle(ps, k, outcome) ==
    IF ps[k] = "pending" THEN [ps EXCEPT ![k] = outcome] ELSE ps

\* connect()'s onConnect and onError both start by removing the two of them.
RemoveTransient(ls, k) ==
    IoOff(IoOff(ls, "connect", Handler("onConnect", k, "")),
          "connect_error", Handler("onError", k, ""))

\* The wrapper's call of the application's callback, as an entry of the trace.
Called(e, cb) == <<IF cb \in Throwing THEN "throw" ELSE "invoke", e, cb>>

\* _emitCustomEvent that pushes the lifecycle event on the log.
EmitCustomEventLogRecords(msgs, name, data) == Append(msgs, Message(name, data))

\* What _emitCustomEvent does to the log: it has no statement on it.
EmitCustomEventLog(msgs, name, data) == msgs

RunHandler(h, e, p, st) ==
    CASE h.kind = "internal" ->
            [st EXCEPT !.status = InternalStatus(e, p, st.status),
                       !.messages = EmitCustomEventLog(@, Custom(e), CustomData(e, p)),
                       !.recorded = EmitCustomEventLog(@, Custom(e), CustomData(e, p)),
                       !.trace = (@ \o <<<<"status", e, "">>>>) \o EmitCustomEvent(Custom(e)),
                       !.custom = Append(@, <<Custom(e), CustomData(e, p)>>)]
      [] h.kind = "onConnect" ->
            [st EXCEPT !.ioListeners = RemoveTransient(@, h.call),
                       !.promises = Settle(@, h.call, "resolved"),
                       !.trace = Append(@, <<"resolve", ToString(h.call), "">>)]
      [] h.kind = "onError" ->
            [st EXCEPT !.ioListeners = RemoveTransient(@, h.call),
                       !.promises = Settle(@, h.call, "rejected"),
                       !.trace = Append(@, <<"reject", ToString(h.call), "">>)]
      [] h.kind = "on" ->
            \* callback(data) is called outside any try block
            [st EXCEPT !.messages = RecordOn(@, Message(e, p.s)),
                       !.recorded = Append(@, Message(e, p.s)),
                       !.trace = @ \o << <<"log", e, h.cb>>, Called(e, h.cb) >>,
                       !.thrown = h.cb \in Throwing]
      [] h.kind = "once" ->
            \* socket.io-client's once() removes its listener before calling it
            [st EXCEPT !.ioListeners = IoOff(@, e, h),
                       !.messages = RecordOnce(@, Message(e, p.s)),
                       !.recorded = Append(@, Message(e, p.s)),
                       !.trace = @ \o << <<"log", e, h.cb>>, Called(e, h.cb) >>,
                       !.thrown = h.cb \in Throwing]

\* The transport calls the listeners one after the other with no try block:
\* what a listener throws ends the emission and reaches the emission's caller.
RECURSIVE RunHandlers(_, _, _, _)
RunHandlers(hs, e, p, st) ==
    IF hs = <<>> \/ st.thrown THEN st
    ELSE RunHandlers(Tail(hs), e, p, RunHandler(Head(hs), e, p, st))

Current ==
    [status |-> status, messages |-> messages, recorded |-> recorded,
     ioListeners |-> ioListeners, promises |-> promises, trace |-> <<>>,
     custom |-> <<>>, thrown |-> FALSE]

\* The result of an operation that ran the transport's listeners.
Outcome(st) == IF st.thrown THEN "throws" ELSE "void"

Emit(e, p) == RunHandlers(ioListeners[e], e, p, Current)

\* socket.disconnect(): socket.io-client fires `disconnect` with the reason
\* "io client disconnect" before it returns when the socket is connected,
\* and fires nothing when it is not.
IoDisconnect ==
    IF ioConnected THEN Emit("disconnect", Payload("io client disconnect", 0))
    ELSE Current

\* custom is the _emitCustomEvent calls of the operation: <<name, data>>.
Op(op, e, d, ret, trace) ==
    [op |-> op, ev |-> e, data |-> d, ret |-> ret, trace |-> trace, custom |-> <<>>]

\* An operation that ran the transport's listeners.
Emission(op, e, d, st) == [Op(op, e, d, Outcome(st), st.trace) EXCEPT !.custom = st.custom]

----------------------------------------------------------------------------
(* The context: the constructor calls svelte's setContext with             *)
(* this.options.socketContext, getSocketContext calls getContext.  The     *)
(* calls are made while a component initialises, on that component's       *)
(* context map.                                                            *)

\* config.socketContext: a key, undefined, or a config without the property
Absent == "absent"

Undefined == "undefined"

Configs == {Absent, Undefined, "socket", "app"}

\* the keys of the context map
ContextKeys == Configs \ {Absent}

\* what getContext returns for a key that was never set
NoCoordinator == 0

\* this.options.socketContext that ignores the config.
OptionsKeyIgnoresConfig(config) == "socket"

\* this.options = { ..., socketContext: 'socket', ...config }: the spread
\* replaces the default by whatever the config's property holds.
OptionsKey(config) == IF config = Absent THEN "socket" ELSE config

\* const name = config.socketContext ?? 'socket'
LookupKey(config) == IF config \in {Absent, Undefined} THEN "socket" ELSE config

\* setContext(key, value): set on the context map, replacing what the key held
SetContext(ctx, key, value) == [ctx EXCEPT ![key] = value]

\* getContext(key): get on the context map
GetContext(ctx, key) == ctx[key]

----------------------------------------------------------------------------
(* The state after new Socket(url, config): _initializeSocket creates the  *)
(* transport and _setupEventHandlers registers the seven handlers.         *)

\* The constructor's status with disconnected false.
InitialStatusNotDisconnected ==
    [connected |-> FALSE, connecting |-> FALSE, disconnected |-> FALSE,
     error |-> NoError, reconnectAttempts |-> 0,
     lastConnected |-> FALSE, lastDisconnected |-> FALSE]

InitialStatus ==
    [connected |-> FALSE, connecting |-> FALSE, disconnected |-> TRUE,
     error |-> NoError, reconnectAttempts |-> 0,
     lastConnected |-> FALSE, lastDisconnected |-> FALSE]

Init ==
    /\ options = <<OptionsKey(Absent)>>
    /\ context = SetContext([k \in ContextKeys |-> NoCoordinator], OptionsKey(Absent), 1)
    /\ socket = "io"
    /\ status = InitialStatus
    /\ messages = <<>>
    /\ eventListeners = [e \in RegEvents |-> <<>>]
    /\ ioListeners = [e \in IoEvents |->
                        IF e \in TransportSignals THEN <<Internal>> ELSE <<>>]
    /\ ioConnected = FALSE
    /\ promises = <<>>
    /\ ioConnects = 0
    /\ emitted = <<>>
    /\ recorded = <<>>
    /\ lastOp = Op("new", "", "", "void", <<>>)

\* The part of the state that the transport's listeners work on.
Apply(st) ==
    /\ status' = st.status
    /\ messages' = st.messages
    /\ recorded' = st.recorded
    /\ ioListeners' = st.ioListeners
    /\ promises' = st.promises

----------------------------------------------------------------------------
(* The transport emits: a lifecycle signal, or an event of the server.     *)

Signal(e, p) ==
    LET st == Emit(e, p) IN
    /\ Apply(st)
    /\ ioConnected' = IF socket = "null" THEN ioConnected
                      ELSE IF e = "connect" THEN TRUE
                      ELSE IF e = "disconnect" THEN FALSE
                      ELSE ioConnected
    /\ lastOp' = Emission("signal", e, p.s, st)
    /\ UNCHANGED <<context, options, socket, eventListeners, ioConnects, emitted>>

SignalConnect == Signal("connect", Payload(NoData, 0))

SignalDisconnect == \E r \in Reasons : Signal("disconnect", Payload(r, 0))

SignalConnectError == \E m \in ErrorMessages : Signal("connect_error", Payload(m, 0))

SignalReconnect == \E n \in 1..MaxAttempt : Signal("reconnect", Payload(ToString(n), n))

SignalReconnectAttempt ==
    \E n \in 1..MaxAttempt : Signal("reconnect_attempt", Payload(ToString(n), n))

SignalReconnectError == \E m \in ErrorMessages : Signal("reconnect_error", Payload(m, 0))

SignalReconnectFailed == Signal("reconnect_failed", Payload(NoData, 0))

Deliver(e, d) ==
    LET st == Emit(e, Payload(d, 0)) IN
    /\ Apply(st)
    /\ lastOp' = Emission("deliver", e, d, st)
    /\ UNCHANGED <<context, options, socket, eventListeners, ioConnected, ioConnects, emitted>>

----------------------------------------------------------------------------
(* The methods of Socket. *)

\* connect()'s guard without its second disjunct.
AlreadyConnected(s) == s.connected

\* connect()'s guard: if (this.status.connected || this.status.connecting) return
AlreadyConnecting(s) == s.connected \/ s.connecting

connect ==
    IF AlreadyConnecting(status)
    THEN /\ lastOp' = Op("connect", "", "", "noop", <<>>)
         /\ UNCHANGED <<context, options, socket, status, messages, eventListeners, ioListeners,
                        ioConnected, promises, ioConnects, emitted, recorded>>
    ELSE /\ status' = [status EXCEPT !.connecting = TRUE, !.disconnected = FALSE,
                                     !.error = NoError]
         /\ IF socket = "null"
            THEN \* reject(new Error('No socket instance'))
                 /\ promises' = Append(promises, "rejected")
                 /\ lastOp' = Op("connect", "", "", "rejected", <<>>)
                 /\ UNCHANGED <<ioListeners, ioConnects>>
            ELSE LET k == Len(promises) + 1 IN
                 /\ promises' = Append(promises, "pending")
                 /\ ioListeners' =
                        IoOn(IoOn(ioListeners, "connect", Handler("onConnect", k, "")),
                             "connect_error", Handler("onError", k, ""))
                 /\ ioConnects' = ioConnects + 1
                 /\ lastOp' = Op("connect", "", "", "pending", <<>>)
         /\ UNCHANGED <<context, options, socket, messages, eventListeners, ioConnected, emitted, recorded>>

disconnect ==
    /\ IF socket = "io"
       THEN LET st == IoDisconnect IN
            /\ Apply(st)
            /\ ioConnected' = FALSE
            /\ lastOp' = Emission("disconnect", "", "", st)
       ELSE /\ lastOp' = Op("disconnect", "", "", "void", <<>>)
            /\ UNCHANGED <<status, messages, recorded, ioListeners, promises, ioConnected>>
    /\ UNCHANGED <<context, options, socket, eventListeners, ioConnects, emitted>>

\* send() with no guard.
SendAlways(s) == TRUE

\* send()'s guard: if (!this.status.connected) return false
SendAllowed(s) == s.connected

\* send() that records an error in the status when it is not connected.
sendSetsError(e, d, ack) ==
    /\ IF ~SendAllowed(status)
       THEN /\ lastOp' = Op("send", e, d, "false", <<>>)
            /\ status' = [status EXCEPT !.error = "Socket not connected"]
            /\ UNCHANGED emitted
       ELSE IF socket = "io"
       THEN /\ emitted' = Append(emitted, [event |-> e, data |-> d, ack |-> ack])
            /\ lastOp' = Op("send", e, d, "true", << <<"emit", e, d>> >>)
            /\ UNCHANGED status
       ELSE /\ lastOp' = Op("send", e, d, "true", <<>>)
            /\ UNCHANGED <<emitted, status>>
    /\ UNCHANGED <<context, options, socket, messages, eventListeners, ioListeners,
                   ioConnected, promises, ioConnects, recorded>>

send(e, d, ack) ==
    /\ IF ~SendAllowed(status)
       THEN /\ lastOp' = Op("send", e, d, "false", <<>>)
            /\ UNCHANGED emitted
       ELSE IF socket = "io"
       THEN /\ emitted' = Append(emitted, [event |-> e, data |-> d, ack |-> ack])
            /\ lastOp' = Op("send", e, d, "true", << <<"emit", e, d>> >>)
       ELSE /\ lastOp' = Op("send", e, d, "true", <<>>)
            /\ UNCHANGED emitted
    /\ UNCHANGED <<context, options, socket, status, messages, eventListeners, ioListeners,
                   ioConnected, promises, ioConnects, recorded>>

on(e, cb) ==
    /\ eventListeners' = [eventListeners EXCEPT ![e] = Append(@, cb)]
    /\ ioListeners' = IF socket = "io" THEN IoOn(ioListeners, e, Handler("on", 0, cb))
                      ELSE ioListeners
    /\ lastOp' = Op("on", e, cb, "void", <<>>)
    /\ UNCHANGED <<context, options, socket, status, messages, ioConnected, promises, ioConnects,
                   emitted, recorded>>

\* off(event, callback)
off(e, cb) ==
    /\ eventListeners' = [eventListeners EXCEPT ![e] = RemoveFirst(@, cb)]
    /\ ioListeners' = IF socket = "io" THEN IoOff(ioListeners, e, UserCallback(cb))
                      ELSE ioListeners
    /\ lastOp' = Op("off", e, cb, "void", <<>>)
    /\ UNCHANGED <<context, options, socket, status, messages, ioConnected, promises, ioConnects,
                   emitted, recorded>>

\* off(event)
offAll(e) ==
    /\ eventListeners' = [eventListeners EXCEPT ![e] = <<>>]
    /\ ioListeners' = IF socket = "io" THEN IoOffAll(ioListeners, e) ELSE ioListeners
    /\ lastOp' = Op("off", e, "", "void", <<>>)
    /\ UNCHANGED <<context, options, socket, status, messages, ioConnected, promises, ioConnects,
                   emitted, recorded>>

once(e, cb) ==
    /\ ioListeners' = IF socket = "io" THEN IoOn(ioListeners, e, Handler("once", 0, cb))
                      ELSE ioListeners
    /\ lastOp' = Op("once", e, cb, "void", <<>>)
    /\ UNCHANGED <<context, options, socket, status, messages, eventListeners, ioConnected, promises,
                   ioConnects, emitted, recorded>>

\* clearMessages() that also forgets the callbacks of on().
clearMessagesAndListeners ==
    /\ messages' = <<>>
    /\ recorded' = <<>>
    /\ eventListeners' = [e \in RegEvents |-> <<>>]
    /\ lastOp' = Op("clearMessages", "", "", "void", <<>>)
    /\ UNCHANGED <<context, options, socket, status, ioListeners, ioConnected, promises,
                   ioConnects, emitted>>

clearMessages ==
    /\ messages' = <<>>
    /\ recorded' = <<>>
    /\ lastOp' = Op("clearMessages", "", "", "void", <<>>)
    /\ UNCHANGED <<context, options, socket, status, eventListeners, ioListeners, ioConnected, promises,
                   ioConnects, emitted>>

\* getStatus(): return this.status
getStatus ==
    /\ lastOp' = Op("getStatus", "", "", "this.status", <<>>)
    /\ UNCHANGED <<context, options, socket, status, messages, eventListeners, ioListeners,
                   ioConnected, promises, ioConnects, emitted, recorded>>

\* isConnected(): return this.status.connected
isConnected ==
    /\ lastOp' = Op("isConnected", "", "", IF status.connected THEN "true" ELSE "false", <<>>)
    /\ UNCHANGED <<context, options, socket, status, messages, eventListeners, ioListeners,
                   ioConnected, promises, ioConnects, emitted, recorded>>

\* destroy() that takes the coordinator's entry out of the context.
DestroyContextUnregisters(ctx, key) == SetContext(ctx, key, NoCoordinator)

\* What destroy() does to the context: it has no statement on it.
DestroyContext(ctx, key) == ctx

destroy ==
    LET st == IF socket = "io" THEN IoDisconnect ELSE Current IN
    /\ IF st.thrown
       THEN \* socket.disconnect() threw: nothing after it is executed
            /\ Apply(st)
            /\ UNCHANGED <<socket, eventListeners>>
       ELSE /\ status' = st.status
            /\ promises' = st.promises
            /\ ioListeners' = IF socket = "io" THEN IoRemoveAllListeners(st.ioListeners)
                              ELSE ioListeners
            /\ socket' = "null"
            /\ eventListeners' = [e \in RegEvents |-> <<>>]
            /\ messages' = <<>>
            /\ recorded' = <<>>
    /\ ioConnected' = FALSE
    /\ context' = DestroyContext(context, options[1])
    /\ lastOp' = Emission("destroy", "", "", st)
    /\ UNCHANGED <<options, ioConnects, emitted>>

\* new Socket(url, config) of one more coordinator, of which the model keeps
\* the number and the context key; the coordinator of the other variables
\* is number 1.
construct(config) ==
    LET n == Len(options) + 1 IN
    /\ options' = Append(options, OptionsKey(config))
    /\ context' = SetContext(context, OptionsKey(config), n)
    /\ lastOp' = Op("construct", config, "", ToString(n), <<>>)
    /\ UNCHANGED <<socket, status, messages, eventListeners, ioListeners, ioConnected,
                   promises, ioConnects, emitted, recorded>>

\* Socket.getSocketContext(config): the result is what getContext returns
getSocketContext(config) ==
    LET found == GetContext(context, LookupKey(config)) IN
    /\ lastOp' = Op("getSocketContext", config, "",
                    IF found = NoCoordinator THEN Undefined ELSE ToString(found), <<>>)
    /\ UNCHANGED <<context, options, socket, status, messages, eventListeners,
                   ioListeners, ioConnected, promises, ioConnects, emitted, recorded>>

----------------------------------------------------------------------------
(* The specifications. *)

\* The callbacks in eventListeners.
Listeners(ls) == Cardinality(UNION {{<<e, i>> : i \in 1..Len(ls[e])} : e \in RegEvents})

\* An emission of e records one log entry per wrapper on e: it fits when the
\* entries recorded since the last clear stay within n.
Fits(e, n) == Len(recorded) + Cardinality(WrappersOn(ioListeners, e)) <= n

\* connect() gets past its guard at most n times.
ConnectRoom(n) == AlreadyConnecting(status) \/ Len(promises) < n

\* send() emits at most MaxEmits times.
EmitRoom == ~(SendAllowed(status) /\ socket = "io") \/ Len(emitted) < MaxEmits

\* on() and once() add a wrapper to the transport.
WrapperRoom == Wrappers(ioListeners) < MaxWrappers

\* on() adds a callback to eventListeners.
ListenerRoom == Listeners(eventListeners) < MaxWrappers

SendEvents == {"message"}

\* The connection: the transport's signals, connect(), disconnect(),
\* destroy(), and off(event) of the transport's own signal names.
Next ==
    \/ SignalConnect
    \/ SignalDisconnect
    \/ SignalConnectError
    \/ SignalReconnect
    \/ SignalReconnectAttempt
    \/ SignalReconnectError
    \/ SignalReconnectFailed
    \/ ConnectRoom(MaxConnects) /\ connect
    \/ disconnect
    \/ destroy
    \/ \E e \in RegEvents \cap TransportSignals : offAll(e)

Spec == Init /\ [][Next]_vars

\* Sending: send() among the transport's signals, connect(), disconnect(),
\* destroy() and off("disconnect").
NextSend ==
    \/ SignalConnect
    \/ SignalDisconnect
    \/ SignalConnectError
    \/ SignalReconnect
    \/ SignalReconnectAttempt
    \/ SignalReconnectError
    \/ SignalReconnectFailed
    \/ ConnectRoom(MaxSendConnects) /\ connect
    \/ disconnect
    \/ destroy
    \/ \E e \in SendEvents, d \in Data, ack \in BOOLEAN : EmitRoom /\ send(e, d, ack)
    \/ offAll("disconnect")

SpecSend == Init /\ [][NextSend]_vars

\* The message log: listeners of the server's event "chat" and its
\* deliveries.  The payload of a delivery is its number since the last clear,
\* which tells the log's entries apart.
LogCallbacks == {"cb1"}

NextLog ==
    \/ \E cb \in LogCallbacks : WrapperRoom /\ ListenerRoom /\ on("chat", cb)
    \/ \E cb \in LogCallbacks : WrapperRoom /\ once("chat", cb)
    \/ \E cb \in LogCallbacks : off("chat", cb)
    \/ offAll("chat")
    \/ clearMessages
    \/ /\ Fits("chat", LogDeliveries)
       /\ Deliver("chat", ToString(Len(recorded) + 1))

SpecLog == Init /\ [][NextLog]_vars

\* The listeners: on(), once() and off() of an event of the server and of a
\* lifecycle event, with a callback that returns and one that throws, among
\* the deliveries of the server's event, the transport's `connect` and
\* `disconnect` signals, clearMessages() and destroy().
ListenEvents == {"chat", "connected"}

ListenCallbacks == {"cb1"} \cup Throwing

NextListeners ==
    \/ \E e \in ListenEvents, cb \in ListenCallbacks :
          /\ Wrappers(ioListeners) < MaxListeners
          /\ Listeners(eventListeners) < MaxListeners
          /\ on(e, cb)
    \/ \E e \in ListenEvents, cb \in ListenCallbacks :
          /\ Wrappers(ioListeners) < MaxListeners
          /\ once(e, cb)
    \/ \E e \in ListenEvents, cb \in ListenCallbacks : off(e, cb)
    \/ \E e \in ListenEvents : offAll(e)
    \/ clearMessages
    \/ /\ Fits("chat", MaxRecorded)
       /\ Deliver("chat", ToString(Len(recorded) + 1))
    \/ SignalConnect
    \/ SignalDisconnect
    \/ destroy

SpecListeners == Init /\ [][NextListeners]_vars

\* The lifecycle events: the transport's seven signals, with listeners
\* registered by on() for one lifecycle event at a time.
LifecycleCallbacks == {"cb1", "cb2"}

\* No other event than e has a listener.
OnlyEvent(e) == \A f \in RegEvents \ {e} : eventListeners[f] = <<>>

NextLifecycle ==
    \/ SignalConnect
    \/ SignalDisconnect
    \/ SignalConnectError
    \/ SignalReconnect
    \/ SignalReconnectAttempt
    \/ SignalReconnectError
    \/ SignalReconnectFailed
    \/ \E e \in LifecycleEvents, cb \in LifecycleCallbacks :
          /\ Listeners(eventListeners) < MaxLifecycleListeners
          /\ OnlyEvent(e)
          /\ on(e, cb)

SpecLifecycle == Init /\ [][NextLifecycle]_vars

\* Connecting: connect() and disconnect() with listeners of `connected`,
\* among the signals that end a connection attempt or a connection.
NextConnected ==
    \/ SignalConnect
    \/ SignalDisconnect
    \/ SignalConnectError
    \/ ConnectRoom(MaxSendConnects) /\ connect
    \/ disconnect
    \/ \E cb \in LifecycleCallbacks :
          /\ Listeners(eventListeners) < MaxLifecycleListeners
          /\ on("connected", cb)

SpecConnected == Init /\ [][NextConnected]_vars

\* The context: constructions of further coordinators and lookups, with
\* configs that name a key, hold undefined, or have no socketContext, and
\* destroy() of the first coordinator.
NextContext ==
    \/ \E config \in Configs : Len(options) < MaxCoordinators /\ construct(config)
    \/ \E config \in Configs : getSocketContext(config)
    \/ destroy

SpecContext == Init /\ [][NextContext]_vars

\* The status: every method but destroy(), among the transport's `connect`
\* and `disconnect` signals and the deliveries of "chat".
NextStatus ==
    \/ SignalConnect
    \/ SignalDisconnect
    \/ ConnectRoom(MaxSendConnects) /\ connect
    \/ disconnect
    \/ \E e \in SendEvents, d \in Data, ack \in BOOLEAN : EmitRoom /\ send(e, d, ack)
    \/ \E cb \in LogCallbacks : WrapperRoom /\ ListenerRoom /\ on("chat", cb)
    \/ \E cb \in LogCallbacks : WrapperRoom /\ once("chat", cb)
    \/ \E cb \in LogCallbacks : off("chat", cb)
    \/ offAll("chat")
    \/ clearMessages
    \/ /\ Fits("chat", MaxWrappers)
       /\ Deliver("chat", ToString(Len(recorded) + 1))
    \/ getStatus
    \/ isConnected

SpecStatus == Init /\ [][NextStatus]_vars

----------------------------------------------------------------------------
(* Vocabulary of the properties. *)

\* The last operation was the transport's signal e.
Signalled(op, e) == op.op = "signal" /\ op.ev = e

\* The constructor's handler of signal e ran in the last operation.
Handled(op, e) == Len(op.trace) > 0 /\ op.trace[1] = <<"status", e, "">>

Pending(ps) == {k \in DOMAIN ps : ps[k] = "pending"}

\* The listeners that connect() left on the transport for promise k.
Transient(ls, k) ==
    {i \in 1..Len(ls["connect"]) : ls["connect"][i] = Handler("onConnect", k, "")}
    \cup {i \in 1..Len(ls["connect_error"]) : ls["connect_error"][i] = Handler("onError", k, "")}

\* The last operation delivered the server's event e.
Delivered(op, e) == op.op = "deliver" /\ op.ev = e

\* The elements of a sequence.
Range(seq) == {seq[i] : i \in 1..Len(seq)}

\* The callbacks that the wrappers of on() and once() called in the last
\* operation, for event e.
CalledBack(op, e) ==
    {t[3] : t \in {u \in Range(op.trace) : u[1] \in {"invoke", "throw"} /\ u[2] = e}}

\* The number of listeners that the last operation ran: each wrapper of
\* on() and once() leaves one "log" entry in the trace.
Ran(op) == Cardinality({i \in 1..Len(op.trace) : op.trace[i][1] = "log"})

IsNotOnce(h) == h.kind # "once"

\* The calls of the listeners of lifecycle event name in the last operation,
\* in the order they were made.
IsCall(t) == t[1] \in {"invoke", "caught"}

LifecycleCalls(op, name) ==
    LET OfName(t) == IsCall(t) /\ t[2] = name IN SelectSeq(op.trace, OfName)

\* One call per listener, in the order of the list.
InOrder(listeners, name) == [i \in 1..Len(listeners) |-> <<"invoke", name, listeners[i]>>]

\* The key a config names: its socketContext, 'socket' for a config without.
KeyOf(config) == IF config = Absent THEN "socket" ELSE config

\* The coordinators constructed with context key k, by number.
ConstructedFor(opts, k) == {i \in 1..Len(opts) : opts[i] = k}

\* In the record of an operation, every call of a listener of lifecycle
\* event name comes before the first entry of the given kind.
CallsBefore(op, name, kind) ==
    \A i, j \in 1..Len(op.trace) :
        (IsCall(op.trace[i]) /\ op.trace[i][2] = name /\ op.trace[j][1] = kind) => i < j

\* The last n entries of a sequence.
LastN(seq, n) ==
    IF Len(seq) <= n THEN seq ELSE SubSeq(seq, Len(seq) - n + 1, Len(seq))

----------------------------------------------------------------------------
(* C1: in every reachable state, status.connected and status.connecting    *)
(* are not both true.                                                      *)
C1_ConnectedConnectingExclusive == ~(status.connected /\ status.connecting)

(* C2: in every reachable state, status.disconnected is true exactly when  *)
(* status.connected and status.connecting are both false.                  *)
C2_DisconnectedIffNeither ==
    status.disconnected <=> (~status.connected /\ ~status.connecting)

(* C3: right after the constructor's handler of the transport's `connect`  *)
(* signal has run, status.reconnectAttempts is 0 and status.error is null, *)
(* whatever they were before.                                              *)
C3_ConnectResets ==
    (Signalled(lastOp, "connect") /\ Handled(lastOp, "connect"))
        => (status.reconnectAttempts = 0 /\ status.error = NoError)

\* a `connect` signal handled after an earlier disconnection
C3_Witness ==
    /\ Signalled(lastOp, "connect") /\ Handled(lastOp, "connect")
    /\ status.lastDisconnected
    /\ status.reconnectAttempts = 0 /\ status.error = NoError

(* C4: a connect() call made while status.connected or status.connecting   *)
(* is true changes no status field, leaves the transport's listeners as    *)
(* they are and makes no socket.connect() call; a connect() call that      *)
(* follows one that started an attempt makes no second socket.connect().   *)
C4_ConnectIdempotent ==
    [][/\ (lastOp'.op = "connect" /\ (status.connected \/ status.connecting))
            => /\ status' = status
               /\ ioListeners' = ioListeners
               /\ promises' = promises
               /\ ioConnects' = ioConnects
       /\ (lastOp.op = "connect" /\ lastOp.ret = "pending" /\ lastOp'.op = "connect")
            => /\ ioConnects' = ioConnects
               /\ lastOp'.ret = "noop"]_vars

\* the second of two connect() calls, the first still pending
C4_Witness ==
    /\ lastOp.op = "connect" /\ lastOp.ret = "noop"
    /\ status.connecting
    /\ promises = <<"pending">>
    /\ ioConnects = 1

(* C5: a promise of connect() stays pending until the transport signals    *)
(* `connect` or `connect_error`; the `connect` signal resolves it and the  *)
(* `connect_error` signal rejects it; once settled it does not change; and *)
(* when it settles neither of its two listeners is on the transport.       *)
C5_ConnectSettles ==
    [][\A k \in DOMAIN promises :
          /\ (promises[k] = "pending" /\ promises'[k] # "pending")
                => /\ lastOp'.op = "signal"
                   /\ lastOp'.ev \in {"connect", "connect_error"}
                   /\ Transient(ioListeners', k) = {}
          /\ (promises[k] = "pending" /\ socket = "io" /\ Signalled(lastOp', "connect"))
                => promises'[k] = "resolved"
          /\ (promises[k] = "pending" /\ socket = "io" /\ Signalled(lastOp', "connect_error"))
                => promises'[k] = "rejected"
          /\ promises[k] # "pending" => promises'[k] = promises[k]]_vars

(* C6: when disconnect() is called while a connect() promise is pending    *)
(* and the status is Connecting, the promise is settled as failed and      *)
(* neither of its two listeners stays on the transport.                    *)
C6_DisconnectSettlesPending ==
    [][(lastOp'.op = "disconnect" /\ status.connecting)
          => \A k \in Pending(promises) :
                /\ promises'[k] = "rejected"
                /\ Transient(ioListeners', k) = {}]_vars

(* C7: send() called while status.connected is false returns false and     *)
(* makes no socket.emit(); and every socket.emit() is made by a send()     *)
(* call that found status.connected true, with that call's event and data: *)
(* nothing is kept to be emitted later.                                    *)
C7_SendWhileDisconnected ==
    [][/\ (lastOp'.op = "send" /\ ~status.connected)
            => (lastOp'.ret = "false" /\ emitted' = emitted)
       /\ emitted' # emitted
            => /\ lastOp'.op = "send" /\ status.connected
               /\ \E ack \in BOOLEAN :
                     emitted' = Append(emitted, [event |-> lastOp'.ev,
                                                 data |-> lastOp'.data, ack |-> ack])]_vars

\* a send() refused after the connection was lost
C7_Witness ==
    /\ lastOp.op = "send" /\ lastOp.ret = "false"
    /\ ~status.connected /\ status.lastConnected
    /\ emitted = <<>>

(* C8: send() called while status.connected is true makes exactly one      *)
(* socket.emit() of its event and data and returns true; and send()        *)
(* returns true only when it has made a socket.emit().                     *)
C8_SendWhileConnected ==
    [][/\ (lastOp'.op = "send" /\ status.connected)
            => /\ lastOp'.ret = "true"
               /\ \E ack \in BOOLEAN :
                     emitted' = Append(emitted, [event |-> lastOp'.ev,
                                                 data |-> lastOp'.data, ack |-> ack])
       /\ (lastOp'.op = "send" /\ lastOp'.ret = "true")
            => Len(emitted') = Len(emitted) + 1]_vars

(* C9: the message log never holds more than 100 entries.                  *)
C9_LogBounded == Len(messages) <= MaxMessages

(* C10: the message log is always the most recent entries recorded, at     *)
(* most 100 of them, in the order of their arrival.                        *)
C10_LogIsLatest == messages = LastN(recorded, MaxMessages)

C13_OffRemovesCallback ==
    [][\A e \in ListenEvents :
          Delivered(lastOp', e)
             => \A cb \in CalledBack(lastOp', e) :
                   \/ cb \in Range(eventListeners[e])
                   \/ Handler("once", 0, cb) \in Range(ioListeners[e])]_vars

(* C14: when a callback registered with on(E) throws during a delivery of  *)
(* E, nothing reaches the transport, every listener of E is still called  *)
(* for that delivery and every log entry of the delivery is recorded.      *)
C14_DeliveryIsolatesThrow ==
    [][Delivered(lastOp', "chat")
          => /\ lastOp'.ret = "void"
             /\ Len(recorded') = Len(recorded) + Len(ioListeners["chat"])
             /\ \A i \in 1..Len(ioListeners["chat"]) :
                   ioListeners["chat"][i].cb \in CalledBack(lastOp', "chat")]_vars

(* C15: when a listener of a lifecycle event throws, every listener of     *)
(* that event is still called for that emission, in order, the status      *)
(* keeps what the handler of the transport's signal assigned, and nothing  *)
(* reaches the transport.                                                  *)
C15_LifecycleIsolatesThrow ==
    [][(Signalled(lastOp', "connect") /\ Handled(lastOp', "connect"))
          => LET listeners == eventListeners["connected"] IN
             /\ Len(lastOp'.trace) = 1 + Len(listeners)
             /\ \A i \in 1..Len(listeners) :
                   /\ lastOp'.trace[1 + i][1] \in {"invoke", "caught"}
                   /\ lastOp'.trace[1 + i][2] = "connected"
                   /\ lastOp'.trace[1 + i][3] = listeners[i]
             /\ status'.connected /\ ~status'.connecting /\ ~status'.disconnected
             /\ lastOp'.ret = "void"]_vars

\* a `connected` emission whose first listener throws and whose second is called
C15_Witness ==
    /\ Signalled(lastOp, "connect")
    /\ eventListeners["connected"] = <<"cbThrow", "cb1">>
    /\ lastOp.trace = << <<"status", "connect", "">>,
                         <<"caught", "connected", "cbThrow">>,
                         <<"invoke", "connected", "cb1">> >>
    /\ status.connected
    /\ lastOp.ret = "void"

(* C16: a delivery of E calls each wrapper of once(E, cb) it reaches one   *)
(* time and leaves it unsubscribed, the wrappers of on() staying; the      *)
(* wrapper being gone, no later delivery calls cb on its behalf.           *)
C16_OnceAtMostOnce ==
    [][Delivered(lastOp', "chat")
          => LET ls == ioListeners["chat"]
                 n == Ran(lastOp') IN
             /\ n <= Len(ls)
             /\ Len(lastOp'.trace) = 2 * n
             /\ \A i \in 1..n : lastOp'.trace[2 * i] = Called("chat", ls[i].cb)
             /\ ioListeners'["chat"] =
                   SelectSeq(SubSeq(ls, 1, n), IsNotOnce) \o SubSeq(ls, n + 1, Len(ls))]_vars

\* a delivery that called a callback of once() and left the event without listener
C16_Witness ==
    /\ Delivered(lastOp, "chat")
    /\ lastOp.trace = << <<"log", "chat", "cb1">>, <<"invoke", "chat", "cb1">> >>
    /\ ioListeners["chat"] = <<>>
    /\ messages = <<Message("chat", "1")>>

(* C17: send() called after destroy() returns false and makes no           *)
(* socket.emit(), whatever the state destroy() was called in.              *)
C17_SendAfterDestroy ==
    [][(lastOp'.op = "send" /\ socket = "null")
          => (lastOp'.ret = "false" /\ emitted' = emitted)]_vars

(* C18: after destroy(), a second destroy() and each of connect(),         *)
(* disconnect(), send(), on(), off(), once() and clearMessages() raises    *)
(* nothing and changes neither the status, nor eventListeners, nor the     *)
(* log.                                                                    *)
C18_NoOpAfterDestroy ==
    [][(socket = "null" /\ lastOp'.op \in {"destroy", "connect", "disconnect", "send",
                                            "on", "off", "once", "clearMessages"})
          => /\ status' = status
             /\ eventListeners' = eventListeners
             /\ messages' = messages
             /\ socket' = "null"
             /\ lastOp'.ret \notin {"rejected", "throws"}]_vars

C24_ReconnectSignal ==
    [][Signalled(lastOp', "reconnect")
          => /\ status'.connected /\ ~status'.connecting /\ ~status'.disconnected
             /\ ToString(status'.reconnectAttempts) = lastOp'.data
             /\ lastOp'.custom = << <<"reconnected", lastOp'.data>> >>]_vars

(* C25: from any state, after the transport signals `reconnect_attempt`    *)
(* with attempt number n, the status is connecting (connecting: true,      *)
(* connected: false, disconnected: false) with reconnectAttempts = n, and  *)
(* `tryConnect` is emitted with n.                                         *)
C25_ReconnectAttemptSignal ==
    [][Signalled(lastOp', "reconnect_attempt")
          => /\ status'.connecting /\ ~status'.connected /\ ~status'.disconnected
             /\ ToString(status'.reconnectAttempts) = lastOp'.data
             /\ lastOp'.custom = << <<"tryConnect", lastOp'.data>> >>]_vars

C27_ReconnectFailedSignal ==
    [][/\ (Signalled(lastOp', "reconnect_failed") /\ Handled(lastOp', "reconnect_failed"))
            => /\ ~status'.connected /\ ~status'.connecting /\ status'.disconnected
               /\ status'.error = "Failed to reconnect after maximum attempts"
               /\ lastOp'.custom = << <<"reconnectFailed", "">> >>
       /\ (Signalled(lastOp, "reconnect_failed") /\ Handled(lastOp, "reconnect_failed")
              /\ lastOp'.op = "connect")
            => /\ ioConnects' = ioConnects + 1
               /\ lastOp'.ret = "pending"]_vars

(* C28: for each of the seven signals of the transport, the handler       *)
(* assigns the status before it emits the lifecycle event, and the         *)
(* listeners of that lifecycle event are called in the order in which      *)
(* on() registered them: on() puts a callback after those registered       *)
(* before it, and the signal calls them from the first to the last.        *)
C28_StatusThenListenersInOrder ==
    [][/\ lastOp'.op = "signal"
            => LET name == Custom(lastOp'.ev)
                   calls == InOrder(eventListeners[name], name) IN
               /\ lastOp'.ev \in TransportSignals
               /\ lastOp'.trace = << <<"status", lastOp'.ev, "">> >> \o calls
               /\ status' = InternalStatus(lastOp'.ev,
                                           Payload(lastOp'.data, status'.reconnectAttempts),
                                           status)
               /\ Len(lastOp'.custom) = 1 /\ lastOp'.custom[1][1] = name
       /\ lastOp'.op = "on"
            => /\ eventListeners'[lastOp'.ev]
                     = Append(eventListeners[lastOp'.ev], lastOp'.data)
               /\ \A f \in RegEvents \ {lastOp'.ev} :
                     eventListeners'[f] = eventListeners[f]]_vars

\* a `reconnect_attempt` with two listeners of `tryConnect`, cb2 registered
\* before cb1
C28_Witness ==
    /\ Signalled(lastOp, "reconnect_attempt")
    /\ eventListeners["tryConnect"] = <<"cb2", "cb1">>
    /\ lastOp.trace = << <<"status", "reconnect_attempt", "">>,
                         <<"invoke", "tryConnect", "cb2">>,
                         <<"invoke", "tryConnect", "cb1">> >>
    /\ lastOp.custom = << <<"tryConnect", "1">> >>
    /\ status.connecting /\ status.reconnectAttempts = 1

(* C29: Socket.getSocketContext of a context key under which no           *)
(* coordinator was constructed fails instead of returning a value.         *)
C29_LookupOfUnregisteredKeyFails ==
    [][(/\ lastOp'.op = "getSocketContext"
        /\ lastOp'.ev # Undefined
        /\ ConstructedFor(options, KeyOf(lastOp'.ev)) = {})
          => lastOp'.ret = "throws"]_vars

C31_DestroyKeepsContext ==
    [][/\ lastOp'.op = "destroy"
            => /\ context' = context
               /\ options' = options
       /\ (/\ socket = "null"
           /\ lastOp'.op = "getSocketContext"
           /\ lastOp'.ev # Undefined
           /\ KeyOf(lastOp'.ev) = options[1]
           /\ ConstructedFor(options, options[1]) = {1})
            => lastOp'.ret = "1"]_vars

\* the lookup of 'socket' after destroy() of the first coordinator, with a
\* second coordinator under 'app'
C31_Witness ==
    /\ socket = "null"
    /\ lastOp.op = "getSocketContext" /\ lastOp.ev = "socket"
    /\ lastOp.ret = "1"
    /\ options = <<"socket", "app">>
    /\ context["socket"] = 1 /\ context["app"] = 2

(* C32: clearMessages() leaves the log empty and changes neither           *)
(* eventListeners, nor the listeners that on() and once() put on the       *)
(* transport, nor any field of the status.                                 *)
C32_ClearMessagesFrame ==
    [][lastOp'.op = "clearMessages"
          => /\ messages' = <<>>
             /\ eventListeners' = eventListeners
             /\ ioListeners' = ioListeners
             /\ status' = status
             /\ socket' = socket]_vars

\* clearMessages() while connected, with a callback of on('chat') and a
\* wrapper of once('chat') in place
C32_Witness ==
    /\ lastOp.op = "clearMessages"
    /\ messages = <<>>
    /\ status.connected
    /\ eventListeners["chat"] = <<"cb1">>
    /\ ioListeners["chat"] = <<Handler("on", 0, "cb1"), Handler("once", 0, "cb1")>>

(* C33: send(), on(), off(), once(), clearMessages(), getStatus() and     *)
(* isConnected() change no field of the status; a step that changes the    *)
(* status is a connect() or one in which a handler of the transport's      *)
(* seven signals ran.                                                      *)
C33_StatusWriters ==
    [][/\ lastOp'.op \in {"send", "on", "off", "once", "clearMessages",
                          "getStatus", "isConnected"}
            => status' = status
       /\ status' # status
            => \/ lastOp'.op = "connect"
               \/ \E i \in 1..Len(lastOp'.trace) :
                     /\ lastOp'.trace[i][1] = "status"
                     /\ lastOp'.trace[i][2] \in TransportSignals]_vars

\* a send() refused after the server ended a connection made by connect():
\* the status keeps the error
C33_Witness ==
    /\ lastOp.op = "send" /\ lastOp.ret = "false"
    /\ status.error = "Server disconnected the client"
    /\ status.disconnected /\ ~status.connected /\ ~status.connecting
    /\ status.lastConnected
    /\ promises = <<"resolved">>
    /\ emitted = <<>>

(* C34: no on(), off() or once() call, whatever its event name, removes   *)
(* a handler that the constructor put on the transport or the onConnect /  *)
(* onError of a pending connect(); so, before destroy(), a `connect`       *)
(* signal always sets status.connected and resolves the pending connect(). *)
C34_ListenerCallsKeepInternalHandlers ==
    [][/\ (lastOp'.op \in {"on", "off", "once"} /\ socket = "io")
            => /\ \A e \in TransportSignals :
                     Internal \in Range(ioListeners[e])
                        => Internal \in Range(ioListeners'[e])
               /\ \A k \in Pending(promises) :
                     Transient(ioListeners', k) = Transient(ioListeners, k)
       /\ (Signalled(lastOp', "connect") /\ socket = "io")
            => /\ status'.connected
               /\ Pending(promises') = {}]_vars

(* C35: status.connecting is true only while a connection attempt is in  *)
(* progress on a transport that was not destroyed: it is false when        *)
(* disconnect() or destroy() returns, it is true only with a transport     *)
(* handle, and connect() does not set it on a destroyed coordinator.       *)
C35_ConnectingMeansAttempt ==
    [][/\ lastOp'.op \in {"disconnect", "destroy"} => ~status'.connecting
       /\ status'.connecting => socket' = "io"
       /\ (lastOp'.op = "connect" /\ socket = "null")
            => status'.connecting = status.connecting]_vars

(* C36: in the step that resolves a connect() promise, the `connect`      *)
(* handler has set status.connected and the `connected` listeners have     *)
(* been called before the resolution; in the step that rejects one, the    *)
(* `connect_error` handler has set status.error and the `connectError`     *)
(* listeners have been called before the rejection.                        *)
C36_SettledAfterStatusAndListeners ==
    [][\A k \in DOMAIN promises' :
          LET fresh == k \notin DOMAIN promises \/ promises[k] = "pending" IN
          /\ (fresh /\ promises'[k] = "resolved")
                => /\ status'.connected
                   /\ Handled(lastOp', "connect")
                   /\ LifecycleCalls(lastOp', "connected")
                         = InOrder(eventListeners["connected"], "connected")
                   /\ CallsBefore(lastOp', "connected", "resolve")
          /\ (fresh /\ promises'[k] = "rejected")
                => /\ status'.error # NoError
                   /\ Handled(lastOp', "connect_error")
                   /\ LifecycleCalls(lastOp', "connectError")
                         = InOrder(eventListeners["connectError"], "connectError")
                   /\ CallsBefore(lastOp', "connectError", "reject")]_vars

(* C37: when the listeners of E on the transport are the wrappers of the  *)
(* k callbacks registered with on(E), one delivery of E records k log      *)
(* entries and calls the k callbacks in registration order, each entry     *)
(* recorded right before the call of its callback.                         *)
C37_DeliveryToEachInOrder ==
    [][(/\ Delivered(lastOp', "chat")
        /\ ioListeners["chat"]
              = [i \in 1..Len(eventListeners["chat"]) |->
                    Handler("on", 0, eventListeners["chat"][i])])
          => LET cbs == eventListeners["chat"]
                 k == Len(cbs) IN
             /\ Len(recorded') = Len(recorded) + k
             /\ Len(lastOp'.trace) = 2 * k
             /\ \A i \in 1..k :
                   /\ lastOp'.trace[2 * i - 1] = <<"log", "chat", cbs[i]>>
                   /\ lastOp'.trace[2 * i] = Called("chat", cbs[i])]_vars

(* C38: a callback registered with once() for a lifecycle event is called *)
(* at the next emission of that lifecycle event, once, and not at a later  *)
(* one: the emission calls it and removes its registration.                *)
C38_OnceOfLifecycleEvent ==
    [][\A cb \in ListenCallbacks :
          (/\ Signalled(lastOp', "connect") /\ Handled(lastOp', "connect")
           /\ Handler("once", 0, cb) \in Range(ioListeners["connected"])
           /\ cb \notin Range(eventListeners["connected"]))
             => /\ Cardinality({i \in 1..Len(lastOp'.trace) :
                                  /\ lastOp'.trace[i][1] \in {"invoke", "caught", "throw"}
                                  /\ lastOp'.trace[i][2] = "connected"
                                  /\ lastOp'.trace[i][3] = cb})
                      = Cardinality({i \in 1..Len(ioListeners["connected"]) :
                                       ioListeners["connected"][i] = Handler("once", 0, cb)})
                /\ Handler("once", 0, cb) \notin Range(ioListeners'["connected"])]_vars

(* C39: the emission of a lifecycle event to its listeners adds nothing   *)
(* to the log: outside clearMessages() and destroy(), a step adds to the   *)
(* log one entry per wrapper of on() or once() that the transport ran,     *)
(* each for the transport's event and payload of that step, and nothing    *)
(* else; a signal whose transport event has no wrapper leaves the log as   *)
(* it was, whatever lifecycle listeners it calls.                          *)
C39_LogOnlyFromWrappers ==
    [][lastOp'.op \notin {"clearMessages", "destroy"}
          => LET n == Ran(lastOp') IN
             /\ recorded' = recorded \o [i \in 1..n |-> Message(lastOp'.ev, lastOp'.data)]
             /\ Len(messages') = Len(messages) + n
             /\ n > 0 => lastOp'.op \in {"signal", "deliver"}
             /\ \A i \in 1..Len(lastOp'.trace) :
                   lastOp'.trace[i][1] = "log"
                      => /\ lastOp'.trace[i][2] = lastOp'.ev
                         /\ lastOp'.ev \notin LifecycleEvents
             /\ (lastOp'.op = "signal" /\ WrappersOn(ioListeners, lastOp'.ev) = {})
                   => messages' = messages]_vars

\* a `connect` signal that calls a listener of `connected` after a delivery
\* of "chat": the log holds the delivery's entry and nothing else
C39_Witness ==
    /\ Signalled(lastOp, "connect")
    /\ lastOp.trace = << <<"status", "connect", "">>, <<"invoke", "connected", "cb1">> >>
    /\ lastOp.custom = << <<"connected", "">> >>
    /\ eventListeners["connected"] = <<"cb1">>
    /\ messages = <<Message("chat", "1")>>
    /\ recorded = messages

====
